---- MODULE Spec2Model ----
(***************************************************************************)
(* A model of the running heatmap engine of src/heatmap.py: the nearest    *)
(* grid index lookup, the Heatmap constructor, make_heatmap_hist (its      *)
(* sequential and its multiprocessing path), make_map and the percentile   *)
(* saturation mask, and the export of the heatmap to ./data/heatmap.csv    *)
(* with its reload.                                                        *)
(*                                                                         *)
(* Coordinates are integers (a fixed-point unit of a degree), so that a    *)
(* point half way between two bins is representable exactly.  Heat values  *)
(* are fixed-point numbers with HeatScale units per count, so that the     *)
(* linear interpolation of np.percentile is exact for whole percentiles.   *)
(***************************************************************************)
EXTENDS Integers, Sequences, FiniteSets, TLC

VARIABLES
    \* ---- the Heatmap object ----
    args,        \* the arguments __init__ was / will be called with
    lon_bins,    \* self.lon_bins
    lat_bins,    \* self.lat_bins
    center,      \* self.center
    grid_res,    \* self.grid_res
    heatmap,     \* self.heatmap: Unset, a lil matrix or a DataFrame
    map,         \* self.map: Unset or the rows handed to folium
    csv,         \* ./data/heatmap.csv: Unset or the text of its rows
    \* ---- make_heatmap_hist ----
    pc,          \* where the call is
    gpx_files,   \* self.gpx_files, the files found by the glob
    n_workers,   \* the n_workers argument
    next_file,   \* the sequential loop's position in gpx_files
    rows_list,   \* the sequential path's rows_list
    cols_list,
    data_list,
    results,     \* the parallel path: what pool.starmap has for each file
    parsed,      \* what each file held when it was read (history)
    \* ---- the saturation mask, called on an array ----
    heat,        \* the 1D heat array, changed in place
    calls,       \* the percentiles the mask was called with, and what it returned
    raised,      \* the exception the last call ended with, or None
    \* ---- the nearest index lookup, called on its own ----
    points,
    bins,
    indices      \* <<>> before the call, <<the returned array>> after it

vars == <<args, lon_bins, lat_bins, center, grid_res, heatmap, map, csv, pc, gpx_files,
          n_workers, next_file, rows_list, cols_list, data_list, results, parsed,
          heat, calls, raised, points, bins, indices>>

outVars == <<heatmap, map, csv>>
objVars == <<args, lon_bins, lat_bins, center, grid_res>>
runVars == <<pc, gpx_files, n_workers, next_file, rows_list, cols_list, data_list,
             results, parsed>>
maskVars == <<heat, calls, raised>>
binVars == <<points, bins, indices>>

\* Python's None where a sequence is expected, and where a name is expected
None == <<>>
NoError == "None"
\* an attribute that was never assigned
Unset == [kind |-> "unset"]

(***************************************************************************)
(* Bounds of the model.                                                    *)
(***************************************************************************)
MaxBins == 4        \* longest bin sequence of the lookup's own specification
MaxCoord == 6       \* bin boundaries of that specification lie in 0..MaxCoord
MaxBatch == 2       \* most points in one batch of that specification
MaxPoints == 2      \* most points in one gpx file
MaxSegments == 2    \* most track segments in one gpx file
MaxFiles == 2       \* most gpx files of a run
MaxHeat == 3        \* largest count of a heat array
MaxCells == 3       \* longest heat array

(***************************************************************************)
(* Helpers on sequences and integers.                                      *)
(***************************************************************************)
Abs(x) == IF x < 0 THEN -x ELSE x

Range(s) == {s[i] : i \in 1..Len(s)}

SeqsUpTo(S, n) == UNION {[1..k -> S] : k \in 0..n}

IsStrictlyIncreasing(s) == \A i \in 1..(Len(s) - 1) : s[i] < s[i + 1]

RECURSIVE Concatenate(_)
\* np.concatenate of a list of arrays
Concatenate(list) ==
    IF list = <<>> THEN <<>> ELSE Head(list) \o Concatenate(Tail(list))

(***************************************************************************)
(* _closest_indices_vectorized.  Indices are numpy's: bins[i] of the code  *)
(* is bins[i + 1] here.                                                    *)
(***************************************************************************)
\* np.searchsorted(bins, v), side='left': the number of boundaries below v
searchsorted(b, v) == Cardinality({i \in 1..Len(b) : b[i] < v})

\* np.clip(x, lo, hi)
clip(x, lo, hi) == IF x < lo THEN lo ELSE IF x > hi THEN hi ELSE x

\* ties go to the right neighbour
use_right_ties(left_diff, right_diff) == right_diff <= left_diff

\* line 26
use_right(left_diff, right_diff) == right_diff < left_diff

\* the lookup without the clamp of lines 22 to 27
closest_index_unclamped(v, b) == searchsorted(b, v)

\* lines 21 to 27, for one point
closest_index(v, b) ==
    LET idx == searchsorted(b, v)
        idx_left == clip(idx - 1, 0, Len(b) - 1)
        idx_right == clip(idx, 0, Len(b) - 1)
        left_diff == Abs(b[idx_left + 1] - v)
        right_diff == Abs(b[idx_right + 1] - v)
    IN  IF use_right(left_diff, right_diff) THEN idx_right ELSE idx_left

\* lines 19 to 27
_closest_indices_vectorized(pts, b) ==
    IF Len(pts) = 0 THEN <<>>
    ELSE [k \in 1..Len(pts) |-> closest_index(pts[k], b)]

(***************************************************************************)
(* The lookup's own specification: any non-empty strictly increasing bins, *)
(* any batch of points from below the first boundary to above the last.    *)
(***************************************************************************)
BinSeqs ==
    {b \in SeqsUpTo(0..MaxCoord, MaxBins) : Len(b) >= 1 /\ IsStrictlyIncreasing(b)}

PointBatches == SeqsUpTo((-1)..(MaxCoord + 1), MaxBatch)

\* The parts of the state a specification does not use stay as they are here.
IdleObject ==
    /\ args = [kind |-> "none"] /\ lon_bins = <<>> /\ lat_bins = <<>>
    /\ center = None /\ grid_res = 0

IdleOutputs == heatmap = Unset /\ map = Unset /\ csv = Unset

IdleRun ==
    /\ pc = "idle" /\ gpx_files = <<>> /\ n_workers = 1 /\ next_file = 1
    /\ rows_list = <<>> /\ cols_list = <<>> /\ data_list = <<>>
    /\ results = <<>> /\ parsed = <<>>

IdleMask == heat = <<>> /\ calls = <<>> /\ raised = NoError

IdleBinner == points = <<>> /\ bins = <<>> /\ indices = <<>>

InitBinner ==
    /\ IdleObject /\ IdleOutputs /\ IdleRun /\ IdleMask
    /\ bins \in BinSeqs
    /\ points \in PointBatches
    /\ indices = <<>>

\* one call _closest_indices_vectorized(points, bins)
Lookup ==
    /\ indices = <<>>
    /\ indices' = <<_closest_indices_vectorized(points, bins)>>
    /\ UNCHANGED <<points, bins, objVars, outVars, runVars, maskVars>>

NextBinner == Lookup

SpecBinner == InitBinner /\ [][NextBinner]_vars

\* the lookup has returned for the batch in points
Looked == indices # <<>>

\* what it returned
Returned == indices[1]

StrictlyInside(v, b) == b[1] < v /\ v < b[Len(b)]

\* C1: for a value strictly between the first and the last boundary the lookup
\* returns an index that minimizes abs(bins[i] - value) over all indices, and of
\* the indices that do it returns the smallest (ties go to the lower index).
C1_NearestLowerTie ==
    Looked =>
        \A k \in 1..Len(points) :
            StrictlyInside(points[k], bins) =>
                LET i == Returned[k]
                    d(j) == Abs(bins[j + 1] - points[k])
                IN  /\ i \in 0..(Len(bins) - 1)
                    /\ \A j \in 0..(Len(bins) - 1) : d(i) <= d(j)
                    /\ \A j \in 0..(i - 1) : d(j) > d(i)

\* the spec's example, in half units: bins [0, 2, 4, 6], value 3, index 1
C1_Witness ==
    /\ Looked
    /\ bins = <<0, 2, 4, 6>>
    /\ points = <<3>>
    /\ Returned = <<1>>

\* C2: for any value, also below the first or above the last boundary, the
\* lookup returns an index in [0, len(bins)): 0 below the first boundary and
\* len(bins) - 1 above the last.
C2_ClampedInRange ==
    Looked =>
        /\ Len(Returned) = Len(points)
        /\ \A k \in 1..Len(points) :
            /\ Returned[k] \in 0..(Len(bins) - 1)
            /\ points[k] < bins[1] => Returned[k] = 0
            /\ points[k] > bins[Len(bins)] => Returned[k] = Len(bins) - 1

C2_Witness ==
    /\ Looked
    /\ Len(bins) >= 2
    /\ Len(points) = 2
    /\ points[1] < bins[1] /\ Returned[1] = 0
    /\ points[2] > bins[Len(bins)] /\ Returned[2] = Len(bins) - 1

(***************************************************************************)
(* Heatmap.__init__.  Widths are even numbers of units, so that            *)
(* box_width/2 is a whole number of units.                                 *)
(***************************************************************************)
\* np.arange(start, stop, step) for a positive step
arange(start, stop, step) ==
    LET n == IF stop > start THEN ((stop - start) + step - 1) \div step ELSE 0
    IN  [k \in 1..n |-> start + (k - 1) * step]

\* line 110
DefaultCenter == <<-77, 39>>

\* line 110: the center the grid is built around when bins are not given
GridCenter(a) == DefaultCenter

\* lines 107 to 123: the attributes __init__ leaves
HeatmapInit(a) ==
    IF a.lat_bins = None \/ a.lon_bins = None
    THEN LET c == GridCenter(a)
         IN  IF a.global_grid
             THEN [grid_res |-> a.grid_res, center |-> c,
                   lon_bins |-> arange(-180, 180, a.grid_res),
                   lat_bins |-> arange(-90, 90, a.grid_res)]
             ELSE [grid_res |-> a.grid_res, center |-> c,
                   lon_bins |-> arange(c[1] - a.box_width \div 2,
                                       c[1] + a.box_width \div 2, a.grid_res),
                   lat_bins |-> arange(c[2] - a.box_width \div 2,
                                       c[2] + a.box_width \div 2, a.grid_res)]
    ELSE [grid_res |-> a.grid_res, center |-> a.center,
          lon_bins |-> a.lon_bins, lat_bins |-> a.lat_bins]

(***************************************************************************)
(* The constructor's own specification: every combination of arguments.    *)
(***************************************************************************)
CtorArgs ==
    [kind : {"call"},
     lat_bins : {None, <<38, 39, 40>>},
     lon_bins : {None, <<-78, -77, -76>>},
     center : {None, <<-111, 45>>, <<-77, 39>>},
     box_width : {2, 4},
     grid_res : {1, 2},
     global_grid : BOOLEAN]

InitGrid ==
    /\ args \in CtorArgs
    /\ lon_bins = <<>> /\ lat_bins = <<>> /\ center = None /\ grid_res = 0
    /\ IdleOutputs
    /\ pc = "new" /\ gpx_files = <<>> /\ n_workers = 1 /\ next_file = 1
    /\ rows_list = <<>> /\ cols_list = <<>> /\ data_list = <<>>
    /\ results = <<>> /\ parsed = <<>>
    /\ IdleMask /\ IdleBinner

\* Heatmap(**args)
Construct ==
    /\ pc = "new"
    /\ LET h == HeatmapInit(args)
       IN  /\ grid_res' = h.grid_res
           /\ center' = h.center
           /\ lon_bins' = h.lon_bins
           /\ lat_bins' = h.lat_bins
    /\ pc' = "idle"
    /\ UNCHANGED <<args, outVars, gpx_files, n_workers, next_file, rows_list,
                   cols_list, data_list, results, parsed, maskVars, binVars>>

NextGrid == Construct

SpecGrid == InitGrid /\ [][NextGrid]_vars

\* C10: built from a caller-supplied center, box width and resolution (no bins,
\* no global grid), the longitude bins cover [center.lon - box_width/2,
\* center.lon + box_width/2) and the latitude bins [center.lat - box_width/2,
\* center.lat + box_width/2) in steps of the resolution, and the stored center
\* is the supplied one.
C10_GridAroundSuppliedCenter ==
    (/\ pc = "idle"
     /\ args.lat_bins = None /\ args.lon_bins = None
     /\ ~args.global_grid
     /\ args.center # None) =>
        /\ center = args.center
        /\ lon_bins = arange(args.center[1] - args.box_width \div 2,
                             args.center[1] + args.box_width \div 2, args.grid_res)
        /\ lat_bins = arange(args.center[2] - args.box_width \div 2,
                             args.center[2] + args.box_width \div 2, args.grid_res)

(***************************************************************************)
(* _process_gpx_file.  A gpx file is what reading it gives: open() or      *)
(* gpxpy.parse() raising, or the segments of its tracks in document order  *)
(* (the loops of lines 44 and 45 visit them in that order and keep nothing *)
(* of the track they belong to), each a sequence of (longitude, latitude). *)
(***************************************************************************)
FilePoints == {<<-78, 38>>, <<-70, 45>>}

SegmentSeqs ==
    {ss \in SeqsUpTo(SeqsUpTo(FilePoints, MaxPoints), MaxSegments) :
        Len(Concatenate(ss)) <= MaxPoints}

FileContents ==
    [kind : {"unreadable", "zero_byte", "malformed"}, segments : {<<>>}]
        \cup [kind : {"ok"}, segments : SegmentSeqs]

\* lines 35 and 36: the exception open() or gpxpy.parse() ends with, if any
open_and_parse(f) ==
    CASE f.kind = "unreadable" -> "OSError"
      [] f.kind = "zero_byte" -> "GPXXMLSyntaxException"
      [] f.kind = "malformed" -> "GPXXMLSyntaxException"
      [] OTHER -> NoError

\* a handler for the errors of open() alone
except_OSError(err) == err = "OSError"

\* line 37: every Exception is caught
except_Exception(err) == err # NoError

\* lines 40 and 54
EmptyResult == [raised |-> NoError, rows |-> <<>>, cols |-> <<>>, data |-> <<>>]

\* lines 29 to 65: the (rows, cols, data) returned, or the exception raised
_process_gpx_file(f, lonb, latb) ==
    LET err == open_and_parse(f)
    IN  IF err # NoError
        THEN IF except_Exception(err) THEN EmptyResult
             ELSE [raised |-> err, rows |-> <<>>, cols |-> <<>>, data |-> <<>>]
        ELSE LET kept == SelectSeq(f.segments, LAMBDA seg : Len(seg) # 0)
                 all_lons == [k \in 1..Len(kept) |->
                                [j \in 1..Len(kept[k]) |-> kept[k][j][1]]]
                 all_lats == [k \in 1..Len(kept) |->
                                [j \in 1..Len(kept[k]) |-> kept[k][j][2]]]
             IN  IF all_lons = <<>> THEN EmptyResult
                 ELSE LET lons == Concatenate(all_lons)
                          lats == Concatenate(all_lats)
                          lon_idx == _closest_indices_vectorized(lons, lonb)
                          lat_idx == _closest_indices_vectorized(lats, latb)
                      IN  [raised |-> NoError, rows |-> lon_idx, cols |-> lat_idx,
                           data |-> [k \in 1..Len(lon_idx) |-> 1]]

(***************************************************************************)
(* The sparse count matrix.  A matrix is its shape and the count of every  *)
(* cell (row, col), rows and columns numbered from 0 as in the code.       *)
(***************************************************************************)
Cells(shape) == (0..(shape[1] - 1)) \X (0..(shape[2] - 1))

\* scipy.sparse.lil_matrix((nlon, nlat), dtype='uint')
lil_matrix(shape) ==
    [kind |-> "lil", shape |-> shape, m |-> [cell \in Cells(shape) |-> 0]]

\* a duplicate entry replaces the cell's count
set_entry(m, r, c, d) == [m EXCEPT ![<<r, c>>] = d]

\* a duplicate entry adds to the cell's count (coo -> csr sums duplicates)
add_entry(m, r, c, d) == [m EXCEPT ![<<r, c>>] = @ + d]

RECURSIVE sum_duplicates(_, _, _, _)
sum_duplicates(rows, cols, data, m) ==
    IF rows = <<>> THEN m
    ELSE sum_duplicates(Tail(rows), Tail(cols), Tail(data),
                        add_entry(m, Head(rows), Head(cols), Head(data)))

\* coo_matrix((data, (rows, cols)), shape=shape, dtype='uint').tocsr().tolil():
\* the matrix, or the ValueError of a coo_matrix whose arrays differ in length
\* or whose indices lie outside the shape
coo_tocsr_tolil(data, rows, cols, shape) ==
    IF \/ Len(rows) # Len(cols) \/ Len(rows) # Len(data)
       \/ \E k \in 1..Len(rows) : <<rows[k], cols[k]>> \notin Cells(shape)
    THEN [kind |-> "raised", raised |-> "ValueError"]
    ELSE [kind |-> "lil", shape |-> shape,
          m |-> sum_duplicates(rows, cols, data, lil_matrix(shape).m)]

\* only the last array of the list is kept
ConcatenateLast(list) == IF list = <<>> THEN <<>> ELSE list[Len(list)]

\* np.concatenate of the arrays gathered from the files
concatenate(list) == Concatenate(list)

\* lines 157 to 165: the sequential path's matrix
SequentialHeatmap(rl, cl, dl, shape) ==
    IF rl = <<>> THEN lil_matrix(shape)
    ELSE coo_tocsr_tolil(concatenate(dl), concatenate(rl), concatenate(cl), shape)

\* the arrays of one name in the results of starmap that are not empty
nonempty(res, field) ==
    LET arrays == [k \in 1..Len(res) |-> res[k][field]]
    IN  SelectSeq(arrays, LAMBDA a : Len(a) # 0)

\* line 172
ParallelRows(res) ==
    IF nonempty(res, "rows") # <<>> THEN concatenate(nonempty(res, "rows")) ELSE <<>>

\* the column arrays are gathered from the last file to the first
ParallelColsReversed(res) ==
    LET list == nonempty(res, "cols")
    IN  IF list # <<>>
        THEN concatenate([k \in 1..Len(list) |-> list[Len(list) + 1 - k]]) ELSE <<>>

\* line 173
ParallelCols(res) ==
    IF nonempty(res, "cols") # <<>> THEN concatenate(nonempty(res, "cols")) ELSE <<>>

\* line 174
ParallelData(res) ==
    IF nonempty(res, "data") # <<>> THEN concatenate(nonempty(res, "data")) ELSE <<>>

\* lines 172 to 180: the parallel path's matrix, from the list starmap returned
ParallelHeatmap(res, shape) ==
    LET rows == ParallelRows(res)
        cols == ParallelCols(res)
        data == ParallelData(res)
    IN  IF Len(rows) = 0 THEN lil_matrix(shape)
        ELSE coo_tocsr_tolil(data, rows, cols, shape)

\* the cells of a matrix in row-major order, as x.tocoo() lists them
CellOrder(shape) ==
    [k \in 1..(shape[1] * shape[2]) |->
        <<(k - 1) \div shape[2], (k - 1) % shape[2]>>]

\* the latitude is written to column 0 and the longitude to column 1
_convert_sparse_to_lists_swapped(x, lonb, latb) ==
    LET nz == SelectSeq(CellOrder(x.shape), LAMBDA cell : x.m[cell] # 0)
    IN  [k \in 1..Len(nz) |->
            <<latb[nz[k][2] + 1], lonb[nz[k][1] + 1], x.m[nz[k]]>>]

\* lines 345 to 369: the (lon, lat, heat) rows of the non-zero cells
_convert_sparse_to_lists(x, lonb, latb) ==
    LET nz == SelectSeq(CellOrder(x.shape), LAMBDA cell : x.m[cell] # 0)
    IN  [k \in 1..Len(nz) |->
            <<lonb[nz[k][1] + 1], latb[nz[k][2] + 1], x.m[nz[k]]>>]

(***************************************************************************)
(* ./data/heatmap.csv.  The array of _convert_sparse_to_lists is a float64 *)
(* array (line 365), so all three columns are written as the decimal text  *)
(* of a float and read back by the float converter of pd.read_csv.  The    *)
(* model's float has Precision bits of significand where float64 has 53,   *)
(* and its spacing is never below one unit; the numbers of the model are   *)
(* whole units, and a float is a number m * 2^e with m < 2^Precision.      *)
(***************************************************************************)
Precision == 7

\* the nearest float to n / d (n >= 0, d > 0), ties to the even significand
RoundToFloat(n, d) ==
    LET e == CHOOSE k \in 0..Precision :
                 /\ n < d * 2^(Precision + k)
                 /\ k = 0 \/ n >= d * 2^(Precision + k - 1)
        s == d * 2^e
        q == n \div s
        r == n % s
        m == IF 2 * r < s THEN q
             ELSE IF 2 * r > s THEN q + 1
             ELSE IF q % 2 = 0 THEN q ELSE q + 1
    IN  m * 2^e

IsFloat(x) == RoundToFloat(Abs(x), 1) = Abs(x)

RECURSIVE Digits(_)
\* the decimal digits of a natural number
Digits(n) == IF n < 10 THEN <<n>> ELSE Append(Digits(n \div 10), n % 10)

\* the text to_csv writes for a float: a float that is a whole number prints
\* as its digits and ".0"
float_repr(x) == [neg |-> x < 0, int |-> Digits(Abs(x)), frac |-> <<0>>]

\* the number a decimal text stands for, for a text with frac = <<0>>
TextValue(t) ==
    LET RECURSIVE value(_, _)
        value(ds, acc) == IF ds = <<>> THEN acc
                          ELSE value(Tail(ds), acc * 10 + Head(ds))
    IN  (IF t.neg THEN -1 ELSE 1) * value(t.int, 0)

\* the digits the converter reads into the number: the fewest that tell any
\* two floats apart (17 for the 53 bits of a float64)
max_digits == CHOOSE d \in 1..Precision :
                  /\ 10^(d - 1) > 2^Precision
                  /\ d = 1 \/ 10^(d - 2) <= 2^Precision

RECURSIVE read_digits(_, _)
\* the converter's loop over a run of digits: a digit is read into the number
\* (number * 10. + digit, each operation rounded) while fewer than max_digits
\* were read, and skipped after that
read_digits(ds, st) ==
    IF ds = <<>> THEN st
    ELSE read_digits(Tail(ds),
            IF st.num_digits < max_digits
            THEN [st EXCEPT !.number =
                                RoundToFloat(RoundToFloat(@ * 10, 1) + Head(ds), 1),
                            !.num_digits = @ + 1]
            ELSE [st EXCEPT !.skipped = @ + 1])

\* the float converter of pd.read_csv (the C engine's default): the digits
\* are read into a float, which is then scaled by the power of ten
precise_xstrtod(t) ==
    LET start == [number |-> 0, num_digits |-> 0, skipped |-> 0]
        ipart == read_digits(t.int, start)
        fpart == read_digits(t.frac, [ipart EXCEPT !.skipped = 0])
        num_decimals == fpart.num_digits - ipart.num_digits
        exponent == ipart.skipped - num_decimals
        number == fpart.number
        n == IF exponent > 0
             THEN RoundToFloat(number * RoundToFloat(10^exponent, 1), 1)
             ELSE RoundToFloat(number, RoundToFloat(10^(-exponent), 1))
    IN  IF t.neg THEN -n ELSE n

\* line 342: df.to_csv(save_path, index=False) of the (lon, lat, heat) rows
to_csv(rows) ==
    [kind |-> "csv", header |-> <<"lon", "lat", "heat">>,
     rows |-> [k \in 1..Len(rows) |->
                 [j \in 1..3 |-> float_repr(rows[k][j])]]]

\* line 274: pd.read_csv(heatmap_path), a DataFrame of three float columns
read_csv(file) ==
    [kind |-> "df", columns |-> file.header,
     rows |-> [k \in 1..Len(file.rows) |->
                 [j \in 1..3 |-> precise_xstrtod(file.rows[k][j])]]]

\* lines 325 to 343: the file _save_heatmap writes
_save_heatmap(x, lonb, latb) ==
    to_csv(_convert_sparse_to_lists(x, lonb, latb))

(***************************************************************************)
(* make_heatmap_hist, step by step.  A file is read when its turn comes;   *)
(* parsed keeps what it held.  The pool's workers finish in any order and  *)
(* pool.starmap hands the results back in the order of the files.          *)
(***************************************************************************)
RunArgs ==
    {[kind |-> "call", lat_bins |-> <<38, 39, 40>>, lon_bins |-> <<-78, -77, -76>>,
      center |-> <<-77, 39>>, box_width |-> 2, grid_res |-> 1, global_grid |-> FALSE],
     [kind |-> "call", lat_bins |-> None, lon_bins |-> None,
      center |-> None, box_width |-> 2, grid_res |-> 90, global_grid |-> TRUE]}

\* the worker counts a run is started with (None stands for cpu_count())
WorkerCounts == {1, 2}

Unread == [kind |-> "unread"]
Pending == [kind |-> "pending"]
Lost == [kind |-> "lost"]

\* what parsed keeps of a file: how reading it ended and all its points
Held(f) == [kind |-> f.kind, points |-> Concatenate(f.segments)]

\* lines 139 and 140
Shape == <<Len(lon_bins), Len(lat_bins)>>

Init ==
    /\ args \in RunArgs
    /\ LET h == HeatmapInit(args)
       IN  /\ grid_res = h.grid_res
           /\ center = h.center
           /\ lon_bins = h.lon_bins
           /\ lat_bins = h.lat_bins
    /\ IdleOutputs /\ IdleRun /\ IdleMask /\ IdleBinner

\* lines 136 to 146: the call, the glob and the choice of the path
StartRun ==
    /\ pc = "idle"
    /\ heatmap = Unset
    /\ \E n \in 0..MaxFiles, w \in WorkerCounts :
        /\ gpx_files' = [k \in 1..n |-> k]
        /\ n_workers' = w
        /\ parsed' = [k \in 1..n |-> Unread]
        /\ IF w = 1 \/ n <= 1
           THEN /\ pc' = "seq"
                /\ results' = <<>>
           ELSE /\ pc' = "par"
                /\ results' = [k \in 1..n |-> Pending]
    /\ next_file' = 1
    /\ rows_list' = <<>> /\ cols_list' = <<>> /\ data_list' = <<>>
    /\ raised' = NoError
    /\ UNCHANGED <<objVars, outVars, heat, calls, binVars>>

\* lines 151 to 156: one turn of the sequential loop
SeqStep ==
    /\ pc = "seq"
    /\ next_file <= Len(gpx_files)
    /\ \E f \in FileContents :
        \E res \in {_process_gpx_file(f, lon_bins, lat_bins)} :
            /\ parsed' = [parsed EXCEPT ![next_file] = Held(f)]
            /\ IF res.raised # NoError
               THEN /\ pc' = "raised"
                    /\ raised' = res.raised
                    /\ UNCHANGED <<next_file, rows_list, cols_list, data_list>>
               ELSE /\ next_file' = next_file + 1
                    /\ IF Len(res.rows) # 0
                       THEN /\ rows_list' = Append(rows_list, res.rows)
                            /\ cols_list' = Append(cols_list, res.cols)
                            /\ data_list' = Append(data_list, res.data)
                       ELSE UNCHANGED <<rows_list, cols_list, data_list>>
                    /\ UNCHANGED <<pc, raised>>
    /\ UNCHANGED <<objVars, outVars, gpx_files, n_workers, results, heat, calls,
                   binVars>>

\* lines 182 to 184, after the matrix x was built (save_heatmap is left at
\* its default, True)
Finish(x) ==
    IF x.kind = "raised"
    THEN /\ pc' = "raised"
         /\ raised' = x.raised
         /\ UNCHANGED <<heatmap, csv>>
    ELSE /\ pc' = "done"
         /\ heatmap' = x
         /\ csv' = _save_heatmap(x, lon_bins, lat_bins)
         /\ UNCHANGED raised

\* lines 157 to 165 and 182 to 184: the loop is over
SeqFinish ==
    /\ pc = "seq"
    /\ next_file > Len(gpx_files)
    /\ Finish(SequentialHeatmap(rows_list, cols_list, data_list, Shape))
    /\ UNCHANGED <<objVars, map, gpx_files, n_workers, next_file, rows_list,
                   cols_list, data_list, results, parsed, heat, calls, binVars>>

\* lines 168 to 170: a worker of the pool runs _process_gpx_file on one file
WorkerDone(i) ==
    /\ pc = "par"
    /\ results[i] = Pending
    /\ \E f \in FileContents :
        \E res \in {_process_gpx_file(f, lon_bins, lat_bins)} :
            /\ parsed' = [parsed EXCEPT ![i] = Held(f)]
            /\ IF res.raised # NoError
               THEN /\ pc' = "raised"
                    /\ raised' = res.raised
                    /\ UNCHANGED results
               ELSE /\ results' = [results EXCEPT ![i] =
                                     [kind |-> "done", rows |-> res.rows,
                                      cols |-> res.cols, data |-> res.data]]
                    /\ UNCHANGED <<pc, raised>>
    /\ UNCHANGED <<objVars, outVars, gpx_files, n_workers, next_file, rows_list,
                   cols_list, data_list, heat, calls, binVars>>

\* line 170: a worker raises while it runs a file (out of memory, say); starmap
\* raises it again in the caller, and make_heatmap_hist ends with it
WorkerRaises(i) ==
    /\ pc = "par"
    /\ results[i] = Pending
    /\ pc' = "raised"
    /\ raised' = "WorkerFailure"
    /\ UNCHANGED <<objVars, outVars, gpx_files, n_workers, next_file, rows_list,
                   cols_list, data_list, results, parsed, heat, calls, binVars>>

\* line 170: a worker process dies while it runs a file; the pool starts
\* another worker but the file's task is gone, and starmap waits for it
WorkerDies(i) ==
    /\ pc = "par"
    /\ results[i] = Pending
    /\ results' = [results EXCEPT ![i] = Lost]
    /\ UNCHANGED <<objVars, outVars, pc, gpx_files, n_workers, next_file, rows_list,
                   cols_list, data_list, parsed, raised, heat, calls, binVars>>

\* lines 170 to 184: starmap has every result
ParFinish ==
    /\ pc = "par"
    /\ \A i \in 1..Len(results) : results[i].kind = "done"
    /\ Finish(ParallelHeatmap(results, Shape))
    /\ UNCHANGED <<objVars, map, gpx_files, n_workers, next_file, rows_list,
                   cols_list, data_list, results, parsed, heat, calls, binVars>>

\* the user stops the run (KeyboardInterrupt) while files are being processed
Interrupt ==
    /\ pc \in {"seq", "par"}
    /\ pc' = "interrupted"
    /\ raised' = "KeyboardInterrupt"
    /\ UNCHANGED <<objVars, outVars, gpx_files, n_workers, next_file, rows_list,
                   cols_list, data_list, results, parsed, heat, calls, binVars>>

Next ==
    \/ StartRun
    \/ SeqStep
    \/ SeqFinish
    \/ \E i \in 1..MaxFiles : i <= Len(results) /\ WorkerDone(i)
    \/ \E i \in 1..MaxFiles : i <= Len(results) /\ WorkerRaises(i)
    \/ \E i \in 1..MaxFiles : i <= Len(results) /\ WorkerDies(i)
    \/ ParFinish
    \/ Interrupt

Spec == Init /\ [][Next]_vars

(***************************************************************************)
(* What the claims about a run speak of.                                   *)
(***************************************************************************)
RECURSIVE SumSeq(_)
SumSeq(q) == IF q = <<>> THEN 0 ELSE Head(q) + SumSeq(Tail(q))

\* the sum of all cell counters of a matrix
Total(x) == SumSeq([k \in 1..Len(CellOrder(x.shape)) |-> x.m[CellOrder(x.shape)[k]]])

\* the files read so far, those that parsed, and those that did not
ReadFiles == {i \in 1..Len(parsed) : parsed[i] # Unread}
GoodFiles == {i \in ReadFiles : parsed[i].kind = "ok"}
BadFiles == ReadFiles \ GoodFiles

\* the number of points of the files that parsed
PointsParsed == SumSeq([i \in 1..Len(parsed) |->
                          IF i \in GoodFiles THEN Len(parsed[i].points) ELSE 0])

\* the cell the nearest lon and lat boundary of a point name
CellOf(pt) == <<CHOOSE r \in 0..(Len(lon_bins) - 1) :
                    /\ \A j \in 1..Len(lon_bins) :
                          Abs(lon_bins[r + 1] - pt[1]) <= Abs(lon_bins[j] - pt[1])
                    /\ \A j \in 1..r :
                          Abs(lon_bins[r + 1] - pt[1]) < Abs(lon_bins[j] - pt[1]),
               CHOOSE c \in 0..(Len(lat_bins) - 1) :
                    /\ \A j \in 1..Len(lat_bins) :
                          Abs(lat_bins[c + 1] - pt[2]) <= Abs(lat_bins[j] - pt[2])
                    /\ \A j \in 1..c :
                          Abs(lat_bins[c + 1] - pt[2]) < Abs(lat_bins[j] - pt[2])>>

\* the points of the files in F that lie nearest to a cell
PointsIn(F, cell) ==
    Cardinality({ik \in F \X (1..MaxPoints) :
                    /\ ik[2] <= Len(parsed[ik[1]].points)
                    /\ CellOf(parsed[ik[1]].points[ik[2]]) = cell})

SequentialPath == n_workers = 1 \/ Len(gpx_files) <= 1

\* C3: when make_heatmap_hist has returned, the sum of all cell counters equals
\* the number of points of the files that parsed; every point counts once in
\* a cell of the matrix (coo_matrix never rejects an index), and a file that
\* failed to parse or held no point adds nothing.
C3_Conservation ==
    /\ raised # "ValueError"
    /\ pc = "done" =>
          /\ heatmap.kind = "lil"
          /\ heatmap.shape = Shape
          /\ Total(heatmap) = PointsParsed

\* two points of the run fell into one cell, beside a file that did not parse
C3_Witness ==
    /\ pc = "done"
    /\ BadFiles # {}
    /\ PointsParsed >= 2
    /\ Total(heatmap) = PointsParsed
    /\ \E cell \in Cells(Shape) : heatmap.m[cell] >= 2

Perms(n) == {f \in [1..n -> 1..n] : \A a, b \in 1..n : f[a] = f[b] => a = b}

Permuted(list, f) == [k \in 1..Len(list) |-> list[f[k]]]

\* the sublist of a list at the positions in S, in the list's order
SubList(list, S) ==
    LET RECURSIVE pick(_)
        pick(k) == IF k > Len(list) THEN <<>>
                   ELSE (IF k \in S THEN <<list[k]>> ELSE <<>>) \o pick(k + 1)
    IN  pick(1)

\* the per-file partial results the run gathered, in the order it holds them
Partials ==
    IF SequentialPath
    THEN [k \in 1..Len(rows_list) |->
            [kind |-> "done", rows |-> rows_list[k], cols |-> cols_list[k],
             data |-> data_list[k]]]
    ELSE results

\* the matrix the run's own aggregation makes of a list of partial results
Aggregate(list) ==
    IF SequentialPath
    THEN SequentialHeatmap([k \in 1..Len(list) |-> list[k].rows],
                           [k \in 1..Len(list) |-> list[k].cols],
                           [k \in 1..Len(list) |-> list[k].data], Shape)
    ELSE ParallelHeatmap(list, Shape)

\* the cell-wise sum of two matrices of one shape
MatrixAdd(x, y) == [cell \in Cells(x.shape) |-> x.m[cell] + y.m[cell]]

\* C4: the final counts do not depend on the order of the per-file partial
\* results: aggregating any permutation of them gives the returned matrix, and
\* so does aggregating the two parts of any partition of them one after the
\* other (S and its complement both occur, so in either order), or aggregating
\* the two parts apart and adding the two matrices.
C4_MergeOrderIndependent ==
    pc = "done" =>
        /\ \A f \in Perms(Len(Partials)) : Aggregate(Permuted(Partials, f)) = heatmap
        /\ \A S \in SUBSET (1..Len(Partials)) :
            LET A == SubList(Partials, S)
                B == SubList(Partials, (1..Len(Partials)) \ S)
            IN  /\ Aggregate(A \o B) = heatmap
                /\ MatrixAdd(Aggregate(A), Aggregate(B)) = heatmap.m

\* two files with different partial results came back from the pool
C4_Witness ==
    /\ pc = "done"
    /\ ~SequentialPath
    /\ Len(Partials) = 2
    /\ Partials[1].rows # <<>> /\ Partials[2].rows # <<>>
    /\ Partials[1] # Partials[2]
    /\ Aggregate(<<Partials[2], Partials[1]>>) = heatmap

\* C5: a file that cannot be opened or parsed raises nothing out of
\* _process_gpx_file and adds no count; the run goes on through the remaining
\* files, and the matrix it returns holds the counts of all the good files.
C5_BadFileSkipped ==
    /\ raised \notin {"OSError", "GPXXMLSyntaxException"}
    /\ SequentialPath /\ pc \in {"seq", "done", "interrupted"} =>
          /\ ReadFiles = 1..(next_file - 1)
          /\ Len(rows_list) = Cardinality({i \in GoodFiles : parsed[i].points # <<>>})
    /\ ~SequentialPath =>
          \A i \in BadFiles : results[i].kind = "done" /\ results[i].rows = <<>>
    /\ pc = "done" =>
          /\ ReadFiles = 1..Len(gpx_files)
          /\ \A cell \in Cells(Shape) : heatmap.m[cell] = PointsIn(GoodFiles, cell)

\* a file that did not parse came before a good file, and the good file counts
C5_Witness ==
    /\ pc = "done"
    /\ \E i \in BadFiles, j \in GoodFiles :
          /\ i < j
          /\ parsed[i].kind \in {"zero_byte", "malformed"}
          /\ parsed[j].points # <<>>
    /\ Total(heatmap) > 0

\* C6: in the parallel path a worker failure never aborts the run: the failed
\* batch is tried again (once) or dropped, and the run still finishes with the
\* counts of the batches that succeeded.
C6_WorkerFailureNeverAborts ==
    /\ ~(pc = "raised" /\ raised = "WorkerFailure")
    /\ (/\ pc = "par"
        /\ \E i \in 1..Len(results) : results[i] = Lost
        /\ \A i \in 1..Len(results) : results[i] # Pending) => ENABLED ParFinish

\* C7: stopped before all files are processed, the run leaves a heatmap holding
\* exactly the counts of the files merged so far.
C7_InterruptedRunLeavesPartialHeatmap ==
    pc = "interrupted" =>
        /\ heatmap.kind = "lil"
        /\ \A cell \in Cells(Shape) : heatmap.m[cell] = PointsIn(GoodFiles, cell)

\* a file holding what parsed keeps of a file, its points in one segment
FileOf(h) ==
    [kind |-> h.kind, segments |-> IF h.points = <<>> THEN <<>> ELSE <<h.points>>]

\* what _process_gpx_file returns for each file of the run, in file order
PerFile ==
    [i \in 1..Len(parsed) |->
        LET res == _process_gpx_file(FileOf(parsed[i]), lon_bins, lat_bins)
        IN  [kind |-> "done", rows |-> res.rows, cols |-> res.cols, data |-> res.data]]

\* lines 148 to 165 on a list of per-file results: the loop keeps the results
\* with rows, and the sequential path's matrix is built of them
SequentialOf(out) ==
    LET kept == SelectSeq(out, LAMBDA o : Len(o.rows) # 0)
    IN  SequentialHeatmap([k \in 1..Len(kept) |-> kept[k].rows],
                          [k \in 1..Len(kept) |-> kept[k].cols],
                          [k \in 1..Len(kept) |-> kept[k].data], Shape)

\* all points of the files that parsed, in the order of the files
AllPoints ==
    Concatenate([i \in 1..Len(parsed) |->
                    IF parsed[i].kind = "ok" THEN parsed[i].points ELSE <<>>])

\* C12: for the files of a finished run, whichever path it took, the
\* sequential path and the parallel path build the same matrix, of shape
\* len(lon_bins) x len(lat_bins), and it is the one the run returned; files
\* without points change nothing; the three arrays the parallel path
\* concatenates have one length, and their k-th elements are the row, the
\* column and the count 1 of the k-th point of the files.
C12_PathsEquivalent ==
    pc = "done" =>
        \A out \in {PerFile} :
            /\ \A seq \in {SequentialOf(out)} :
                  /\ seq.kind = "lil"
                  /\ seq.shape = <<Len(lon_bins), Len(lat_bins)>>
                  /\ ParallelHeatmap(out, Shape) = seq
                  /\ heatmap = seq
            /\ \A rows \in {ParallelRows(out)}, cols \in {ParallelCols(out)},
                  data \in {ParallelData(out)}, pts \in {AllPoints} :
                  /\ Len(rows) = Len(pts)
                  /\ Len(cols) = Len(rows) /\ Len(data) = Len(rows)
                  /\ \A k \in 1..Len(rows) :
                        <<rows[k], cols[k]>> = CellOf(pts[k]) /\ data[k] = 1

\* the pool ran two files: the first gave no points, the second two points in
\* two cells that differ in row and in column; the sequential path makes the
\* returned matrix of the same files
C12_Witness ==
    /\ pc = "done"
    /\ ~SequentialPath
    /\ Len(parsed) = 2
    /\ parsed[1].points = <<>>
    /\ Len(parsed[2].points) = 2
    /\ CellOf(parsed[2].points[1])[1] # CellOf(parsed[2].points[2])[1]
    /\ CellOf(parsed[2].points[1])[2] # CellOf(parsed[2].points[2])[2]
    /\ SequentialOf(PerFile) = heatmap
    /\ Total(heatmap) = 2

(***************************************************************************)
(* make_map and _apply_percentile_mask.  A heat value is a whole number of *)
(* 1/HeatScale counts; the threshold of a first clip is then a whole       *)
(* number of hundredths of a count and that of a second clip exact too.    *)
(***************************************************************************)
HeatScale == 100 * 100

\* the saturation_percentile arguments tried
Percentiles == {-10, 0, 25, 50, 90, 100, 150}

\* np.percentile(heat, percentile), linear interpolation between the order
\* statistics: the outcomes it can end with.  Outside [0, 100] it raises
\* ValueError; of an empty array it returns nan or raises IndexError, with
\* the numpy installed.
np_percentile(h, percentile) ==
    IF percentile < 0 \/ percentile > 100
    THEN {[raised |-> "ValueError"]}
    ELSE IF Len(h) = 0
    THEN {[raised |-> NoError, nan |-> TRUE], [raised |-> "IndexError"]}
    ELSE LET sorted == SortSeq(h, LAMBDA x, y : x < y)
             rank == (Len(h) - 1) * percentile
             lo == rank \div 100
             gamma == rank % 100
             a == sorted[lo + 1]
             b == sorted[IF lo + 2 <= Len(h) THEN lo + 2 ELSE Len(h)]
         IN  {[raised |-> NoError, nan |-> FALSE,
               value |-> a + ((b - a) * gamma) \div 100]}

\* the values below the threshold are raised to it
mask_below(h, t) == [k \in 1..Len(h) |-> IF h[k] < t THEN t ELSE h[k]]

\* line 390: heat[heat > saturation_heat] = saturation_heat
mask_above(h, t) == [k \in 1..Len(h) |-> IF h[k] > t THEN t ELSE h[k]]

\* lines 389 to 391: the outcomes of _apply_percentile_mask(heat, percentile),
\* each the exception raised or the array returned (heat itself, changed)
_apply_percentile_mask(h, percentile) ==
    {IF o.raised # NoError THEN [raised |-> o.raised, heat |-> h]
     ELSE IF o.nan THEN [raised |-> NoError, nan |-> TRUE, heat |-> h]
     ELSE [raised |-> NoError, nan |-> FALSE, saturation_heat |-> o.value,
           heat |-> mask_above(h, o.value)] :
        o \in np_percentile(h, percentile)}

\* the heat column of _convert_sparse_to_lists, a float array
HeatColumn(x) ==
    LET rows == _convert_sparse_to_lists(x, lon_bins, lat_bins)
    IN  [k \in 1..Len(rows) |-> rows[k][3] * HeatScale]

\* lines 224 to 227: the (lon, lat, heat) rows of a lil matrix or a DataFrame
heat_list(x) ==
    IF x.kind = "lil" THEN _convert_sparse_to_lists(x, lon_bins, lat_bins)
    ELSE x.rows

\* lines 224 to 229: the (lat, lon, heat) rows handed on
MapData(x) ==
    LET rows == heat_list(x)
    IN  [k \in 1..Len(rows) |-> <<rows[k][2], rows[k][1], rows[k][3] * HeatScale>>]

\* line 233: data[:, 2] = the masked column
WithHeat(data, h) == [k \in 1..Len(data) |-> <<data[k][1], data[k][2], h[k]>>]

\* the matrices a run can leave on the grid of the mask's specification
MaskBins == [lon_bins |-> [k \in 1..MaxCells |-> k - 78], lat_bins |-> <<39>>]

MaskHeatmaps ==
    [kind : {"lil"}, shape : {<<MaxCells, 1>>},
     m : [Cells(<<MaxCells, 1>>) -> 0..MaxHeat]]

InitMask ==
    /\ args = [kind |-> "call", lat_bins |-> MaskBins.lat_bins,
               lon_bins |-> MaskBins.lon_bins, center |-> <<-77, 39>>,
               box_width |-> 10, grid_res |-> 1, global_grid |-> FALSE]
    /\ LET h == HeatmapInit(args)
       IN  /\ grid_res = h.grid_res
           /\ center = h.center
           /\ lon_bins = h.lon_bins
           /\ lat_bins = h.lat_bins
    /\ heatmap \in MaskHeatmaps \cup {Unset}
    /\ map = Unset /\ csv = Unset
    /\ IdleRun /\ IdleBinner
    /\ heat = IF heatmap = Unset THEN <<>> ELSE HeatColumn(heatmap)
    /\ calls = <<>>
    /\ raised = NoError

\* lines 186 to 259: make_map(saturation_percentile=percentile)
MakeMap(percentile) ==
    /\ IF heatmap = Unset
       THEN /\ raised' = "AttributeError"
            /\ UNCHANGED map
       ELSE LET data == MapData(heatmap)
            IN  IF percentile < 100
                THEN \E o \in _apply_percentile_mask(
                                 [k \in 1..Len(data) |-> data[k][3]], percentile) :
                        /\ raised' = o.raised
                        /\ map' = IF o.raised # NoError THEN map
                                  ELSE [kind |-> "map", percentile |-> percentile,
                                        data |-> WithHeat(data, o.heat)]
                ELSE /\ raised' = NoError
                     /\ map' = [kind |-> "map", percentile |-> percentile,
                                data |-> data]
    /\ UNCHANGED <<objVars, heatmap, csv, runVars, heat, calls, binVars>>

\* a caller's own _apply_percentile_mask(heat, percentile) on the heat column;
\* a second call takes the percentile of the first
ApplyMask(percentile) ==
    /\ \/ calls = <<>>
       \/ Len(calls) = 1 /\ calls[1].percentile = percentile
    /\ \E o \in _apply_percentile_mask(heat, percentile) :
        /\ heat' = o.heat
        /\ raised' = o.raised
        /\ calls' = Append(calls, [percentile |-> percentile, before |-> heat,
                                   outcome |-> o])
    /\ UNCHANGED <<objVars, outVars, runVars, binVars>>

NextMask ==
    \/ \E percentile \in Percentiles : MakeMap(percentile)
    \/ \E percentile \in Percentiles : ApplyMask(percentile)

SpecMask == InitMask /\ [][NextMask]_vars

\* the percentiles the spec's SaturationFilter accepts: (0, 100]
ValidPercentile(percentile) == 0 < percentile /\ percentile <= 100

\* a call of the mask that returned a clipped array
Clipped(call) ==
    /\ ValidPercentile(call.percentile)
    /\ call.outcome.raised = NoError
    /\ ~call.outcome.nan

\* C8 as stated: for every array and every valid percentile, applying the clip
\* twice gives the same values as applying it once.
C8_ClipIdempotent ==
    (Len(calls) = 2 /\ Clipped(calls[1]) /\ Clipped(calls[2])) =>
        calls[2].outcome.heat = calls[1].outcome.heat

\* C8 as amended: a clip replaces exactly the values above its threshold by the
\* threshold, and applying it twice gives the same values as applying it once
\* whenever the threshold of the first clip is one of the input values (as for
\* percentile 100, or when (n - 1) * percentile / 100 is a whole number).
C8_ClipIdempotentAtInputThreshold ==
    /\ \A k \in 1..Len(calls) :
          Clipped(calls[k]) =>
              LET t == calls[k].outcome.saturation_heat
                  before == calls[k].before
                  after == calls[k].outcome.heat
              IN  /\ Len(after) = Len(before)
                  /\ \A j \in 1..Len(before) :
                        after[j] = IF before[j] > t THEN t ELSE before[j]
    /\ (/\ Len(calls) = 2 /\ Clipped(calls[1]) /\ Clipped(calls[2])
        /\ calls[1].outcome.saturation_heat \in Range(calls[1].before)) =>
          calls[2].outcome.heat = calls[1].outcome.heat

\* counts 1, 2, 3 clipped twice at the median: 1, 2, 2 both times
C8_Witness ==
    /\ Len(calls) = 2
    /\ calls[1].percentile = 50
    /\ calls[1].before = <<1 * HeatScale, 2 * HeatScale, 3 * HeatScale>>
    /\ calls[1].outcome.heat = <<1 * HeatScale, 2 * HeatScale, 2 * HeatScale>>
    /\ calls[2].outcome.heat = calls[1].outcome.heat

\* C9: a percentile outside (0, 100] is rejected with an error before anything
\* is clipped: make_map produces no map for it, and a direct call of the mask
\* raises and leaves every heat value as it was (stated for a heatmap with
\* at least one non-zero cell).
C9_InvalidPercentileRejected ==
    /\ (map # Unset /\ map.data # <<>>) => ValidPercentile(map.percentile)
    /\ \A k \in 1..Len(calls) :
          (~ValidPercentile(calls[k].percentile) /\ calls[k].before # <<>>) =>
              /\ calls[k].outcome.raised # NoError
              /\ calls[k].outcome.heat = calls[k].before

(***************************************************************************)
(* The export and its reload: a Heatmap whose make_heatmap_hist has        *)
(* returned (any matrix of counts on its grid), then _save_heatmap,        *)
(* load_heatmap and make_map in any order.                                 *)
(***************************************************************************)
\* explicit grids: one whose bins all come back from the file as they were
\* written, and one with bins whose text the converter reads one float off
ExportArgs ==
    {[kind |-> "call", lon_bins |-> <<-78, -70>>, lat_bins |-> <<38, 46>>,
      center |-> <<-77, 39>>, box_width |-> 10, grid_res |-> 8, global_grid |-> FALSE],
     [kind |-> "call", lon_bins |-> <<-116, -108>>, lat_bins |-> <<38, 46>>,
      center |-> <<-112, 42>>, box_width |-> 10, grid_res |-> 8, global_grid |-> FALSE]}

ExportShape == <<2, 2>>

ExportHeatmaps ==
    [kind : {"lil"}, shape : {ExportShape}, m : [Cells(ExportShape) -> 0..MaxHeat]]

InitExport ==
    /\ args \in ExportArgs
    /\ LET h == HeatmapInit(args)
       IN  /\ grid_res = h.grid_res
           /\ center = h.center
           /\ lon_bins = h.lon_bins
           /\ lat_bins = h.lat_bins
    /\ \A k \in 1..Len(lon_bins) : IsFloat(lon_bins[k])
    /\ \A k \in 1..Len(lat_bins) : IsFloat(lat_bins[k])
    /\ heatmap \in ExportHeatmaps
    /\ map = Unset /\ csv = Unset
    /\ IdleRun /\ IdleMask /\ IdleBinner

\* lines 325 to 343: self._save_heatmap(), as line 183 calls it
SaveHeatmap ==
    /\ IF heatmap.kind = "lil"
       THEN /\ csv' = _save_heatmap(heatmap, lon_bins, lat_bins)
            /\ raised' = NoError
       ELSE /\ raised' = "ValueError"
            /\ UNCHANGED csv
    /\ UNCHANGED <<objVars, heatmap, map, runVars, heat, calls, binVars>>

\* lines 261 to 275: load_heatmap()
LoadHeatmap ==
    /\ IF csv = Unset
       THEN /\ raised' = "FileNotFoundError"
            /\ UNCHANGED heatmap
       ELSE /\ heatmap' = read_csv(csv)
            /\ raised' = NoError
    /\ UNCHANGED <<objVars, map, csv, runVars, heat, calls, binVars>>

NextExport ==
    \/ SaveHeatmap
    \/ LoadHeatmap
    \/ \E percentile \in Percentiles : MakeMap(percentile)

SpecExport == InitExport /\ [][NextExport]_vars

\* the non-zero cells of a matrix with their counts, as (row, col, count)
NonZeroCells(x) ==
    {<<cell[1], cell[2], x.m[cell]>> : cell \in {c \in Cells(x.shape) : x.m[c] # 0}}

\* the (lon, lat, heat) rows the spec derives from a matrix, as a set
DerivedRows(x) ==
    {<<lon_bins[t[1] + 1], lat_bins[t[2] + 1], t[3]>> : t \in NonZeroCells(x)}

\* the numbers the rows of the file stand for
FileRows(file) ==
    {<<TextValue(file.rows[k][1]), TextValue(file.rows[k][2]),
       TextValue(file.rows[k][3])>> : k \in 1..Len(file.rows)}

\* the cells a reloaded table stands for: the bins nearest to its lon and lat
RecoveredCells(df) ==
    {<<closest_index(df.rows[k][1], lon_bins), closest_index(df.rows[k][2], lat_bins),
       df.rows[k][3]>> : k \in 1..Len(df.rows)}

\* a step of load_heatmap that replaced the matrix by the table of the file
Reloaded == heatmap.kind = "lil" /\ heatmap'.kind = "df"

\* a step of make_map that rendered again with the percentile of the last map
RenderedAgain == map # Unset /\ map' # Unset /\ map'.percentile = map.percentile

\* C11 as stated: the file holds one row per non-zero cell with lon =
\* lon_bins[row], lat = lat_bins[col], heat = counter; loading it back gives
\* these same rows, and the rows handed to rendering from the reloaded heatmap
\* equal the rows handed to rendering from the matrix.
C11_RoundTripExact ==
    [][/\ (csv' # Unset /\ heatmap'.kind = "lil") =>
              /\ FileRows(csv') = DerivedRows(heatmap')
              /\ Len(csv'.rows) = Cardinality(NonZeroCells(heatmap'))
       /\ Reloaded =>
              /\ Len(heatmap'.rows) = Cardinality(NonZeroCells(heatmap))
              /\ Range(heatmap'.rows) = DerivedRows(heatmap)
       /\ RenderedAgain => map'.data = map.data]_vars

\* two rows equal in heat whose lat and lon have the same nearest bins
SameUpToRounding(a, b) ==
    /\ a[3] = b[3]
    /\ closest_index(a[1], lat_bins) = closest_index(b[1], lat_bins)
    /\ closest_index(a[2], lon_bins) = closest_index(b[2], lon_bins)

\* C11 as amended: the file holds exactly one row per non-zero cell with lon =
\* lon_bins[row], lat = lat_bins[col], heat = counter; loading it back gives as
\* many rows in the same order, with exactly the same counts and with lon and
\* lat equal to the written ones up to the rounding of the float converter, so
\* that the nearest bins of the reloaded rows are the non-zero cells of the
\* matrix; and the rows handed to rendering from the reloaded heatmap are those
\* handed over from the matrix, row for row, up to that rounding.
C11_RoundTripUpToRounding ==
    [][/\ (csv' # Unset /\ heatmap'.kind = "lil") =>
              /\ FileRows(csv') = DerivedRows(heatmap')
              /\ Len(csv'.rows) = Cardinality(NonZeroCells(heatmap'))
       /\ Reloaded =>
              LET written == _convert_sparse_to_lists(heatmap, lon_bins, lat_bins)
              IN  /\ Len(heatmap'.rows) = Cardinality(NonZeroCells(heatmap))
                  /\ RecoveredCells(heatmap') = NonZeroCells(heatmap)
                  /\ \A k \in 1..Len(heatmap'.rows) :
                        /\ heatmap'.rows[k][3] = written[k][3]
                        /\ closest_index(heatmap'.rows[k][1], lon_bins)
                              = closest_index(written[k][1], lon_bins)
                        /\ closest_index(heatmap'.rows[k][2], lat_bins)
                              = closest_index(written[k][2], lat_bins)
       /\ RenderedAgain =>
              /\ Len(map'.data) = Len(map.data)
              /\ \A k \in 1..Len(map.data) :
                    SameUpToRounding(map'.data[k], map.data[k])]_vars

\* a matrix with a count of two or more was saved and loaded back; a longitude
\* came back one float off the written one, and the map was made of the
\* reloaded rows: they hold that longitude, whose nearest bin is the cell's
C11_Witness ==
    /\ heatmap.kind = "df"
    /\ csv # Unset
    /\ Len(heatmap.rows) >= 2
    /\ \E k \in 1..Len(heatmap.rows) :
          /\ heatmap.rows[k][3] >= 2
          /\ heatmap.rows[k][1] # TextValue(csv.rows[k][1])
          /\ lon_bins[closest_index(heatmap.rows[k][1], lon_bins) + 1]
                = TextValue(csv.rows[k][1])
    /\ map # Unset
    /\ map.percentile = 100
    /\ map.data = MapData(heatmap)

====
